---- MODULE Spec2Model ----
(***************************************************************************)
(* A model of the LJ-ETEN pair style (Software/LAMMPS/pair_lj_eten.cpp):   *)
(* the per-type-pair coefficient table and its lifecycle (allocate,        *)
(* settings, coeff, init_style, init_one, write_restart, read_restart)     *)
(* and the per-pair force/energy kernels (compute, compute_inner,          *)
(* compute_middle, compute_outer, single, born_matrix).                    *)
(*                                                                         *)
(* Numbers.  The doubles of the source are modelled by exact numbers.  The *)
(* table holds integers.  A kernel value is a record [n, d, e] that stands *)
(* for (n / d) * (1/rsq)^e, where rsq is the squared distance of the pair  *)
(* being evaluated: the kernels divide by rsq seven times over, and the    *)
(* exponent keeps every numerator inside 32-bit integers.                  *)
(* Each kernel is computed in the order of the source's statements.        *)
(*                                                                         *)
(* Memory.  memory->create() does not initialise what it allocates.  A     *)
(* cell that was never written holds Undef.  The one read of such a cell   *)
(* in the code is init_one's read of cut[i][i] for a pair that is not set: *)
(* the cell takes an arbitrary value there and keeps it (memory does not   *)
(* change between two reads).  No other operation of the model computes    *)
(* with an Undef cell.                                                     *)
(***************************************************************************)
EXTENDS Integers, Sequences, FiniteSets, TLC

\* ------------------------------------------------------------------ bounds

\* atom->ntypes: the number of particle types of the run.
NTypes == 2
\* The largest pair distance r that is evaluated (rsq = r * r).
MaxR == 9

Types == 1..NTypes

\* ----------------------------------------------------------------- numbers

Abs(x) == IF x < 0 THEN -x ELSE x

MAX(x, y) == IF x > y THEN x ELSE y

RECURSIVE Gcd(_, _)
Gcd(x, y) == IF y = 0 THEN x ELSE Gcd(y, x % y)

RECURSIVE Pow(_, _)
Pow(x, k) == IF k = 0 THEN 1 ELSE x * Pow(x, k - 1)

\* The value (n / d) * (1/rsq)^e, with n / d in lowest terms.
Val(n, d, e) ==
  IF n = 0 THEN [n |-> 0, d |-> 1, e |-> 0]
  ELSE LET g == Gcd(Abs(n), d) IN [n |-> n \div g, d |-> d \div g, e |-> e]

\* An integer or a fraction as a value.
I(k) == Val(k, 1, 0)
Q(n, d) == Val(n, d, 0)

\* x with its exponent raised to e (e >= x.e): the same value.
Lift(x, e, rsq) == IF x.n = 0 THEN x ELSE [n |-> x.n * Pow(rsq, e - x.e), d |-> x.d, e |-> e]

VMul(x, y) == Val(x.n * y.n, x.d * y.d, x.e + y.e)

VAdd(x, y, rsq) ==
  LET e == MAX(x.e, y.e)
      a == Lift(x, e, rsq)
      b == Lift(y, e, rsq)
      l == (a.d \div Gcd(a.d, b.d)) * b.d
  IN Val(a.n * (l \div a.d) + b.n * (l \div b.d), l, e)

VNeg(x) == [x EXCEPT !.n = -x.n]

VSub(x, y, rsq) == VAdd(x, VNeg(y), rsq)

\* Equality of the values two records stand for.
VEq(x, y, rsq) ==
  LET e == MAX(x.e, y.e)
      a == Lift(x, e, rsq)
      b == Lift(y, e, rsq)
  IN Val(a.n, a.d, 0) = Val(b.n, b.d, 0)

VZero == I(0)

\* 1.0 / rsq
Recip(rsq) == [n |-> 1, d |-> 1, e |-> 1]

\* sqrt() of a perfect square.
ISqrt(x) == CHOOSE k \in 0..x : k * k = x

\* ------------------------------------------------------------ the instance

\* The content of a cell that was allocated and never written (every value
\* the program stores is >= 0).
Undef == -1
\* nullptr, and a pointer that was never assigned.
NULL == <<>>
Unset == <<Undef>>

\* Pair::mix_flag, an enum
GEOMETRIC == 0
ARITHMETIC == 1

\* error->all() ends the run; err names the message it ended with.
NoErr == "none"
ErrStyle == "Illegal pair_style command"
ErrCoeff == "Incorrect args for pair coefficients"
ErrBounds == "Numeric index is out of bounds"
ErrRespa == "Pair cutoff < Respa interior cutoff"

\* The values of the input script: global cutoffs, per-pair cutoff overrides,
\* coefficient triples <<aterm, bterm, cterm>>.
CutGlobals == {2, 8}
CutOverrides == {18}
Coeffs == {<<3, 2, 1>>, <<1, 3, 2>>}
\* What an unwritten cut[i][i] may hold.
Garbage == {8, 32}
\* Respa::cutoff, the four shell radii of the integrator.
RespaCutoff == <<1, 4, 5, 8>>

Table(v) == [i \in Types |-> [j \in Types |-> v]]

\* The instance after PairLJETEN(lmp) and the engine's settings of the flags of
\* the base class; no table is allocated, cut_respa is not set.
Construct(cg, of, mf, tf) ==
  [allocated |-> 0, cut_global |-> cg, offset_flag |-> of, mix_flag |-> mf,
   tail_flag |-> tf, cut_respa |-> Unset,
   setflag |-> Table(Undef), cutsq |-> Table(Undef), cut |-> Table(Undef),
   aterm |-> Table(Undef), bterm |-> Table(Undef), cterm |-> Table(Undef),
   lj1 |-> Table(Undef), lj2 |-> Table(Undef), lj3 |-> Table(Undef),
   lj4 |-> Table(Undef), lj5 |-> Table(Undef), lj6 |-> Table(Undef),
   offset |-> Table(Undef)]

\* allocate(): fresh arrays; only setflag[i][j], j >= i, is written.
allocate(p) ==
  [p EXCEPT !.allocated = 1,
            !.setflag = [i \in Types |-> [j \in Types |-> IF j >= i THEN 0 ELSE Undef]],
            !.cutsq = Table(Undef),
            !.cut = Table(Undef),
            !.aterm = Table(Undef), !.bterm = Table(Undef), !.cterm = Table(Undef),
            !.lj1 = Table(Undef), !.lj2 = Table(Undef), !.lj3 = Table(Undef),
            !.lj4 = Table(Undef), !.lj5 = Table(Undef), !.lj6 = Table(Undef),
            !.offset = Table(Undef)]

\* settings() that resets the cutoff of no pair.
settingsNoReset(p, narg, cg) ==
  IF narg # 1 THEN [p |-> p, err |-> ErrStyle]
  ELSE [p |-> [p EXCEPT !.cut_global = cg], err |-> NoErr]

\* settings(narg, arg): the global cutoff; the cutoff of every pair that was
\* set is reset to it.
settings(p, narg, cg) ==
  IF narg # 1 THEN [p |-> p, err |-> ErrStyle]
  ELSE [p |-> [p EXCEPT !.cut_global = cg,
                        !.cut = [i \in Types |-> [j \in Types |->
                                   IF p.allocated = 1 /\ j >= i /\ p.setflag[i][j] = 1
                                   THEN cg ELSE @[i][j]]]],
        err |-> NoErr]

\* utils::bounds(arg, 1, ntypes, lo, hi): a type range inside 1..ntypes.
bounds(lo, hi) == 1 <= lo /\ hi <= NTypes

\* The cells of loops that start j at jlo: the whole rectangle.
coeffCellsFromJlo(a) ==
  {c \in Types \X Types : /\ a.ilo <= c[1] /\ c[1] <= a.ihi
                           /\ a.jlo <= c[2] /\ c[2] <= a.jhi}

\* The cells the loops of coeff() write: ilo <= i <= ihi, MAX(jlo, i) <= j <= jhi.
coeffCells(a) ==
  {c \in Types \X Types : /\ a.ilo <= c[1] /\ c[1] <= a.ihi
                           /\ MAX(a.jlo, c[1]) <= c[2] /\ c[2] <= a.jhi}

coeffWrite(t, cells, v) ==
  [i \in Types |-> [j \in Types |-> IF <<i, j>> \in cells THEN v ELSE t[i][j]]]

\* coeff() with the count of the arguments checked after the loops.
coeffLateCheck(p, a) ==
  LET q == IF p.allocated = 0 THEN allocate(p) ELSE p
      cells == coeffCells(a)
  IN [p |-> [q EXCEPT !.aterm = coeffWrite(@, cells, a.aterm),
                      !.bterm = coeffWrite(@, cells, a.bterm),
                      !.cterm = coeffWrite(@, cells, a.cterm),
                      !.cut = coeffWrite(@, cells, IF a.narg = 6 THEN a.cut ELSE q.cut_global),
                      !.setflag = coeffWrite(@, cells, 1)],
      err |-> IF a.narg < 5 \/ a.narg > 6 \/ cells = {} THEN ErrCoeff
              ELSE IF ~bounds(a.ilo, a.ihi) \/ ~bounds(a.jlo, a.jhi) THEN ErrBounds
              ELSE NoErr]

\* coeff(narg, arg): a = [narg, ilo, ihi, jlo, jhi, aterm, bterm, cterm, cut];
\* a.cut is arg[5], read only when narg is 6.
coeff(p, a) ==
  IF a.narg < 5 \/ a.narg > 6 THEN [p |-> p, err |-> ErrCoeff]
  ELSE LET q == IF p.allocated = 0 THEN allocate(p) ELSE p IN
       IF ~bounds(a.ilo, a.ihi) \/ ~bounds(a.jlo, a.jhi) THEN [p |-> q, err |-> ErrBounds]
       ELSE LET cut_one == IF a.narg = 6 THEN a.cut ELSE q.cut_global
                cells == coeffCells(a)
                count == Cardinality(cells)
            IN [p |-> [q EXCEPT !.aterm = coeffWrite(@, cells, a.aterm),
                                !.bterm = coeffWrite(@, cells, a.bterm),
                                !.cterm = coeffWrite(@, cells, a.cterm),
                                !.cut = coeffWrite(@, cells, cut_one),
                                !.setflag = coeffWrite(@, cells, 1)],
                err |-> IF count = 0 THEN ErrCoeff ELSE NoErr]

\* init_style(): the shell radii of the integrator when it has an inner
\* level, nullptr otherwise.
init_style(p, inner) ==
  [p EXCEPT !.cut_respa = IF inner THEN RespaCutoff ELSE NULL]

\* Pair::mix_distance(sig1, sig2), for the two mixing rules modelled.
mix_distance(p, sig1, sig2) ==
  IF p.mix_flag = GEOMETRIC THEN ISqrt(sig1 * sig2) ELSE (sig1 + sig2) \div 2

\* The instance with the cell cut[i][i] holding mem[i] if it was never written.
load(p, i, mem) ==
  IF p.cut[i][i] = Undef THEN [p EXCEPT !.cut[i][i] = mem[i]] ELSE p

\* The unset pair with aterm mixed from the two diagonal pairs, as the cutoff is.
initUnsetMixA(p, i, j, mem) ==
  IF p.setflag[i][j] = 0
  THEN LET q == load(load(p, i, mem), j, mem) IN
       [q EXCEPT !.aterm[i][j] = (q.aterm[i][i] + q.aterm[j][j]) \div 2,
                 !.bterm[i][j] = 0, !.cterm[i][j] = 0,
                 !.cut[i][j] = mix_distance(q, q.cut[i][i], q.cut[j][j])]
  ELSE p

\* init_one, the unset pair: zero coefficients, the mixed cutoff.  mem is what
\* the cells cut[i][i], cut[j][j] hold if they were never written.
initUnset(p, i, j, mem) ==
  IF p.setflag[i][j] = 0
  THEN LET q == load(load(p, i, mem), j, mem) IN
       [q EXCEPT !.aterm[i][j] = 0, !.bterm[i][j] = 0, !.cterm[i][j] = 0,
                 !.cut[i][j] = mix_distance(q, q.cut[i][i], q.cut[j][j])]
  ELSE p

\* The derived constants computed by scaling aterm in place.
initDerivedInPlace(p, i, j) ==
  [p EXCEPT !.aterm[i][j] = 12 * p.aterm[i][j],
            !.lj1[i][j] = 12 * p.aterm[i][j],
            !.lj2[i][j] = 10 * p.bterm[i][j],
            !.lj3[i][j] = 6 * p.cterm[i][j],
            !.lj4[i][j] = p.aterm[i][j],
            !.lj5[i][j] = p.bterm[i][j],
            !.lj6[i][j] = p.cterm[i][j],
            !.offset[i][j] = 0]

\* init_one, the derived constants of (i,j).
initDerived(p, i, j) ==
  [p EXCEPT !.lj1[i][j] = 12 * p.aterm[i][j],
            !.lj2[i][j] = 10 * p.bterm[i][j],
            !.lj3[i][j] = 6 * p.cterm[i][j],
            !.lj4[i][j] = p.aterm[i][j],
            !.lj5[i][j] = p.bterm[i][j],
            !.lj6[i][j] = p.cterm[i][j],
            !.offset[i][j] = 0]

\* The copies into (j,i) without that of lj3.
initMirrorNoLj3(p, i, j) ==
  [p EXCEPT !.lj1[j][i] = p.lj1[i][j], !.lj2[j][i] = p.lj2[i][j],
            !.lj4[j][i] = p.lj4[i][j],
            !.lj5[j][i] = p.lj5[i][j], !.lj6[j][i] = p.lj6[i][j],
            !.offset[j][i] = p.offset[i][j]]

\* init_one, the copies into (j,i).
initMirror(p, i, j) ==
  [p EXCEPT !.lj1[j][i] = p.lj1[i][j], !.lj2[j][i] = p.lj2[i][j],
            !.lj3[j][i] = p.lj3[i][j], !.lj4[j][i] = p.lj4[i][j],
            !.lj5[j][i] = p.lj5[i][j], !.lj6[j][i] = p.lj6[i][j],
            !.offset[j][i] = p.offset[i][j]]

\* The check with <= for <.
respaCheckLeq(p, i, j) ==
  IF p.cut_respa # NULL /\ p.cut[i][j] <= p.cut_respa[4] THEN ErrRespa ELSE NoErr

\* init_one, the check of the interior rRESPA cutoff.
respaCheck(p, i, j) ==
  IF p.cut_respa # NULL /\ p.cut[i][j] < p.cut_respa[4] THEN ErrRespa ELSE NoErr

\* init_one(i, j): the instance after the call, the error it ended with, the
\* cutoff it returns.  (The tail correction it may compute is not modelled: it
\* writes etail_ij and ptail_ij only.)
init_one(p, i, j, mem) ==
  LET q == initMirror(initDerived(initUnset(p, i, j, mem), i, j), i, j)
      e == respaCheck(q, i, j)
  IN [p |-> q, err |-> e, ret |-> IF e = NoErr THEN q.cut[i][j] ELSE Undef]

\* Pair::init(), the caller of init_one: cutsq[i][j] = cutsq[j][i] = cut * cut
\* for the cutoff that init_one returned.
storeCutsq(p, i, j, c) ==
  [p EXCEPT !.cutsq = [@ EXCEPT ![i][j] = c * c, ![j][i] = c * c]]

\* Pair::init(), the loop over the pairs from the k-th on: init_one(i, j) for
\* i <= j in order, cutsq stored, until a call ends the run.
RECURSIVE initPairs(_, _, _)
initPairs(p, k, mem) ==
  IF k > NTypes * NTypes THEN [p |-> p, err |-> NoErr]
  ELSE LET i == ((k - 1) \div NTypes) + 1
           j == ((k - 1) % NTypes) + 1
       IN IF j < i THEN initPairs(p, k + 1, mem)
          ELSE LET r == init_one(p, i, j, mem) IN
               IF r.err # NoErr THEN [p |-> r.p, err |-> r.err]
               ELSE initPairs(storeCutsq(r.p, i, j, r.ret), k + 1, mem)

\* Pair::init(): init_style(), then init_one for every pair.
pairInit(p, inner, mem) == initPairs(init_style(p, inner), 1, mem)

\* ----------------------------------------------------------------- kernels

\* A pair of particles as a kernel sees it: the types, the distance r (delx = r,
\* dely = delz = 0, so rsq = r * r), factor_lj = special_lj[sbmask(j)] as a
\* fraction <<n, d>>, and the flags of the pass.
Factors == {<<1, 2>>, <<1, 1>>}
Geoms == [itype : Types, jtype : Types, r : 1..MaxR, factor : Factors,
          eflag : 0..1, vflag : 0..1]

Rsq(g) == g.r * g.r
factor_lj(g) == Q(g.factor[1], g.factor[2])
\* ev_init(eflag, vflag): evflag
evflag(g) == g.eflag = 1 \/ g.vflag = 1

\* No value: a variable that was not assigned for this pair, a tally not made.
Nothing == [n |-> 0, d |-> 0, e |-> 0]

\* What a kernel did with one pair: ran (the kernel was called), hit (the force
\* branch was taken), f (fpair as added to the forces; zero if nothing was),
\* e and v (evdwl and fpair as handed to ev_tally; Nothing if it was not
\* called or the variable was not assigned for this pair).
NotRun == [ran |-> FALSE, hit |-> FALSE, f |-> Nothing, e |-> Nothing, v |-> Nothing]
Skipped == [ran |-> TRUE, hit |-> FALSE, f |-> VZero, e |-> Nothing, v |-> Nothing]

\* forcelj = r6inv * (lj1 * r6inv - lj2 * r2inv * r2inv + lj3)
forcelj(p, it, jt, rsq) ==
  LET r2inv == Recip(rsq)
      r6inv == VMul(VMul(r2inv, r2inv), r2inv)
  IN VMul(r6inv,
          VAdd(VSub(VMul(I(p.lj1[it][jt]), r6inv),
                    VMul(VMul(I(p.lj2[it][jt]), r2inv), r2inv), rsq),
               I(p.lj3[it][jt]), rsq))

\* fpair = factor_lj * forcelj * r2inv
fpairRaw(p, g) ==
  VMul(VMul(factor_lj(g), forcelj(p, g.itype, g.jtype, Rsq(g))), Recip(Rsq(g)))

\* evdwl = factor_lj * (r6inv * (lj4 * r6inv - lj5 * r2inv * r2inv + lj6) - offset)
evdwl(p, g) ==
  LET rsq == Rsq(g)
      it == g.itype
      jt == g.jtype
      r2inv == Recip(rsq)
      r6inv == VMul(VMul(r2inv, r2inv), r2inv)
      philj == VSub(VMul(r6inv,
                         VAdd(VSub(VMul(I(p.lj4[it][jt]), r6inv),
                                   VMul(VMul(I(p.lj5[it][jt]), r2inv), r2inv), rsq),
                              I(p.lj6[it][jt]), rsq)),
                    I(p.offset[it][jt]), rsq)
  IN VMul(philj, factor_lj(g))

\* rsw = (sqrt(rsq) - lo) / (hi - lo)
rsw(g, lo, hi) == Q(ISqrt(Rsq(g)) - lo, hi - lo)

\* rsw * rsw * (3.0 - 2.0 * rsw)
fadeIn(t) == VMul(VMul(t, t), VSub(I(3), VMul(I(2), t), 1))
\* 1.0 - rsw * rsw * (3.0 - 2.0 * rsw)
fadeOutInner(t) == VSub(I(1), VMul(VMul(t, t), VSub(I(3), VMul(I(2), t), 1)), 1)
\* The fade-out with the factor 3.0 - 2.0 * rsw.
fadeOutMiddleWrongSign(t) == VAdd(I(1), VMul(VMul(t, t), VSub(I(3), VMul(I(2), t), 1)), 1)
\* 1.0 + rsw * rsw * (2.0 * rsw - 3.0)
fadeOutMiddle(t) == VAdd(I(1), VMul(VMul(t, t), VSub(VMul(I(2), t), I(3), 1)), 1)

\* compute() with <= for < in the test of the cutoff.
computeLeq(p, g) ==
  IF Rsq(g) <= p.cutsq[g.itype][g.jtype]
  THEN [ran |-> TRUE, hit |-> TRUE, f |-> fpairRaw(p, g),
        e |-> IF ~evflag(g) THEN Nothing ELSE IF g.eflag = 1 THEN evdwl(p, g) ELSE VZero,
        v |-> IF evflag(g) THEN fpairRaw(p, g) ELSE Nothing]
  ELSE Skipped

\* compute(eflag, vflag), one pair
compute(p, g) ==
  IF Rsq(g) < p.cutsq[g.itype][g.jtype]
  THEN [ran |-> TRUE, hit |-> TRUE, f |-> fpairRaw(p, g),
        e |-> IF ~evflag(g) THEN Nothing ELSE IF g.eflag = 1 THEN evdwl(p, g) ELSE VZero,
        v |-> IF evflag(g) THEN fpairRaw(p, g) ELSE Nothing]
  ELSE Skipped

\* compute_inner(), one pair
compute_inner(p, g) ==
  LET cut_out_on == p.cut_respa[1]
      cut_out_off == p.cut_respa[2]
      rsq == Rsq(g)
  IN IF rsq < cut_out_off * cut_out_off
     THEN [ran |-> TRUE, hit |-> TRUE,
           f |-> IF rsq > cut_out_on * cut_out_on
                 THEN VMul(fpairRaw(p, g), fadeOutInner(rsw(g, cut_out_on, cut_out_off)))
                 ELSE fpairRaw(p, g),
           e |-> Nothing, v |-> Nothing]
     ELSE Skipped

\* compute_middle(), one pair
compute_middle(p, g) ==
  LET cut_in_off == p.cut_respa[1]
      cut_in_on == p.cut_respa[2]
      cut_out_on == p.cut_respa[3]
      cut_out_off == p.cut_respa[4]
      rsq == Rsq(g)
      f0 == fpairRaw(p, g)
      f1 == IF rsq < cut_in_on * cut_in_on
            THEN VMul(f0, fadeIn(rsw(g, cut_in_off, cut_in_on))) ELSE f0
      f2 == IF rsq > cut_out_on * cut_out_on
            THEN VMul(f1, fadeOutMiddle(rsw(g, cut_out_on, cut_out_off))) ELSE f1
  IN IF rsq < cut_out_off * cut_out_off /\ rsq > cut_in_off * cut_in_off
     THEN [ran |-> TRUE, hit |-> TRUE, f |-> f2, e |-> Nothing, v |-> Nothing]
     ELSE Skipped

\* The first two radii, those of the fade-in of compute_middle.
outerRadiiFirstTwo(p) == <<p.cut_respa[1], p.cut_respa[2]>>

\* compute_outer, the radii of its fade-in: cut_in_off, cut_in_on
outerRadii(p) == <<p.cut_respa[3], p.cut_respa[4]>>

\* compute_outer() whose virial branch keeps the faded fpair of the force
\* branch between cut_in_off and cut_in_on.
compute_outerFadedVirial(p, g) ==
  LET cut_in_off == outerRadii(p)[1]
      cut_in_on == outerRadii(p)[2]
      rsq == Rsq(g)
      hit == rsq > cut_in_off * cut_in_off
      f0 == fpairRaw(p, g)
      f1 == IF rsq < cut_in_on * cut_in_on
            THEN VMul(f0, fadeIn(rsw(g, cut_in_off, cut_in_on))) ELSE f0
      fv == IF g.vflag = 1 /\ rsq <= cut_in_off * cut_in_off
            THEN f0
            ELSE IF hit THEN f1 ELSE Nothing
  IN IF rsq < p.cutsq[g.itype][g.jtype]
     THEN [ran |-> TRUE, hit |-> hit, f |-> IF hit THEN f1 ELSE VZero,
           e |-> IF ~evflag(g) THEN Nothing ELSE IF g.eflag = 1 THEN evdwl(p, g) ELSE VZero,
           v |-> IF evflag(g) THEN fv ELSE Nothing]
     ELSE Skipped

\* compute_outer(eflag, vflag), one pair
compute_outer(p, g) ==
  LET cut_in_off == outerRadii(p)[1]
      cut_in_on == outerRadii(p)[2]
      rsq == Rsq(g)
      hit == rsq > cut_in_off * cut_in_off
      f0 == fpairRaw(p, g)
      f1 == IF rsq < cut_in_on * cut_in_on
            THEN VMul(f0, fadeIn(rsw(g, cut_in_off, cut_in_on))) ELSE f0
      \* fpair as the virial branch leaves it
      fv == IF g.vflag = 1 /\ (rsq <= cut_in_off * cut_in_off \/ rsq < cut_in_on * cut_in_on)
            THEN f0
            ELSE IF hit THEN f1 ELSE Nothing
  IN IF rsq < p.cutsq[g.itype][g.jtype]
     THEN [ran |-> TRUE, hit |-> hit, f |-> IF hit THEN f1 ELSE VZero,
           e |-> IF ~evflag(g) THEN Nothing ELSE IF g.eflag = 1 THEN evdwl(p, g) ELSE VZero,
           v |-> IF evflag(g) THEN fv ELSE Nothing]
     ELSE Skipped

\* single(i, j, itype, jtype, rsq, factor_coul, factor_lj, fforce): fforce and
\* the energy it returns.  It makes no test of the cutoff.
single(p, g) ==
  [fforce |-> VMul(VMul(factor_lj(g), forcelj(p, g.itype, g.jtype, Rsq(g))), Recip(Rsq(g))),
   energy |-> evdwl(p, g)]

\* rinv = sqrt(r2inv): 1 / r is r / rsq
Rinv(g) == [n |-> ISqrt(Rsq(g)), d |-> 1, e |-> 1]

\* born_matrix(i, j, itype, jtype, rsq, factor_coul, factor_lj, dupair, du2pair)
born_matrix(p, g) ==
  LET rsq == Rsq(g)
      it == g.itype
      jt == g.jtype
      rinv == Rinv(g)
      r2inv == Recip(rsq)
      r6inv == VMul(VMul(r2inv, r2inv), r2inv)
      du == VMul(VMul(r6inv, rinv),
                 VSub(I(p.lj2[it][jt]), VMul(I(p.lj1[it][jt]), r6inv), rsq))
      du2 == VMul(VMul(r6inv, r2inv),
                  VSub(VMul(VMul(I(13), I(p.lj1[it][jt])), r6inv),
                       VMul(I(7), I(p.lj2[it][jt])), rsq))
  IN [dupair |-> VMul(factor_lj(g), du), du2pair |-> VMul(factor_lj(g), du2)]

\* ------------------------------------------------------------ restart file

\* The type pairs in the order of the loops of write_restart and read_restart:
\* for i = 1..ntypes, for j = i..ntypes.
RECURSIVE pairsFrom(_, _)
pairsFrom(i, j) ==
  IF i > NTypes THEN <<>>
  ELSE IF j > NTypes THEN pairsFrom(i + 1, i + 1)
  ELSE <<<<i, j>>>> \o pairsFrom(i, j + 1)

PairSeq == pairsFrom(1, 1)

\* write_restart_settings(fp): the header.
write_restart_settings(p) ==
  <<p.cut_global, p.offset_flag, p.mix_flag, p.tail_flag>>

\* write_restart(fp), the record of the k-th pair and of those after it:
\* setflag, then aterm, bterm, cterm, cut when the pair is set.
RECURSIVE writePairs(_, _)
writePairs(p, k) ==
  IF k > Len(PairSeq) THEN <<>>
  ELSE LET i == PairSeq[k][1]
           j == PairSeq[k][2]
       IN (IF p.setflag[i][j] # 0
           THEN <<p.setflag[i][j], p.aterm[i][j], p.bterm[i][j], p.cterm[i][j], p.cut[i][j]>>
           ELSE <<p.setflag[i][j]>>) \o writePairs(p, k + 1)

\* write_restart(fp): the stream written.
write_restart(p) == write_restart_settings(p) \o writePairs(p, 1)

\* read_restart_settings(fp): the header, read from the first four places.
read_restart_settings(p, fp) ==
  [p EXCEPT !.cut_global = fp[1], !.offset_flag = fp[2],
            !.mix_flag = fp[3], !.tail_flag = fp[4]]

\* The pairs read with bterm and cterm taken from each other's place.
RECURSIVE readPairsSwapped(_, _, _, _)
readPairsSwapped(p, fp, pos, k) ==
  IF k > Len(PairSeq) THEN p
  ELSE LET i == PairSeq[k][1]
           j == PairSeq[k][2]
       IN IF fp[pos] # 0
          THEN readPairsSwapped([p EXCEPT !.setflag[i][j] = fp[pos],
                                          !.aterm[i][j] = fp[pos + 1],
                                          !.bterm[i][j] = fp[pos + 3],
                                          !.cterm[i][j] = fp[pos + 2],
                                          !.cut[i][j] = fp[pos + 4]],
                                fp, pos + 5, k + 1)
          ELSE readPairsSwapped([p EXCEPT !.setflag[i][j] = fp[pos]], fp, pos + 1, k + 1)

\* read_restart(fp), the k-th pair and those after it, read from place pos on.
RECURSIVE readPairs(_, _, _, _)
readPairs(p, fp, pos, k) ==
  IF k > Len(PairSeq) THEN p
  ELSE LET i == PairSeq[k][1]
           j == PairSeq[k][2]
       IN IF fp[pos] # 0
          THEN readPairs([p EXCEPT !.setflag[i][j] = fp[pos],
                                   !.aterm[i][j] = fp[pos + 1],
                                   !.bterm[i][j] = fp[pos + 2],
                                   !.cterm[i][j] = fp[pos + 3],
                                   !.cut[i][j] = fp[pos + 4]],
                         fp, pos + 5, k + 1)
          ELSE readPairs([p EXCEPT !.setflag[i][j] = fp[pos]], fp, pos + 1, k + 1)

\* read_restart(fp): the header, allocate(), then the pairs.
read_restart(p, fp) ==
  readPairs(allocate(read_restart_settings(p, fp)), fp, 5, 1)

\* ------------------------------------------------------------------- state

VARIABLES
  pair,     \* the PairLJETEN instance
  err,      \* NoErr, or the message error->all() ended the run with
  ret,      \* what the last operation returned: a cutoff (init_one) or Undef
  fp,       \* the restart file
  hist,     \* history: per pair, <<>> or <<the cutoff override of the last coeff
            \* call that wrote the pair (Undef: it gave none), 1 if settings ran since>>
  written,  \* history: <<>> or <<the instance that wrote fp>>
  last,     \* history: the last operation on the table, [op, i, j, again, bad,
            \* arg]; again: it is init_one(i, j) and so was the operation
            \* before it; bad: it is a coeff call with a bad count of values or
            \* with type ranges that hold no pair; arg: <<the arguments>> of a
            \* coeff call
  geom,     \* the pair of particles the kernels are run on
  force,    \* per kernel, what its last pass did with that pair
  probe     \* the last call of single() or born_matrix(): [op, g, out]

vars == <<pair, err, ret, fp, hist, written, last, geom, force, probe>>

\* No call of single() or born_matrix() yet.
NoProbe == [op |-> "none", g |-> CHOOSE g \in Geoms : TRUE, out |-> <<>>]

Modes == {"full", "inner", "middle", "outer"}

Pairs == Types \X Types

Mems == [Types -> Garbage \cup {Undef}]

\* What init_one(i, j) may find in cut[i][i] and cut[j][j]: it matters only where
\* the pair is not set and the cell was never written.
MemsFor(p, i, j) ==
  {m \in Mems : \A k \in Types :
     (m[k] # Undef) <=> (p.setflag[i][j] = 0 /\ k \in {i, j} /\ p.cut[k][k] = Undef)}

Op(name, i, j) ==
  [op |-> name, i |-> i, j |-> j,
   again |-> name = "init_one" /\ last.op = name /\ last.i = i /\ last.j = j,
   bad |-> FALSE, arg |-> <<>>]

\* The engine creates the instance and calls settings() at once (the
\* pair_style command); pair_modify sets the flags of the base class.
Init ==
  /\ \E cg \in CutGlobals, mf \in {GEOMETRIC, ARITHMETIC} :
       pair = Construct(cg, 0, mf, 0)
  /\ err = NoErr
  /\ ret = Undef
  /\ fp = <<>>
  /\ hist = [c \in Pairs |-> <<>>]
  /\ written = <<>>
  /\ last = [op |-> "pair_style", i |-> 0, j |-> 0, again |-> FALSE, bad |-> FALSE, arg |-> <<>>]
  /\ geom = CHOOSE g \in Geoms : TRUE
  /\ force = [m \in Modes |-> NotRun]
  /\ probe = NoProbe

\* ----------------------------------------------------------------- actions

\* settings(narg, arg)
Settings ==
  /\ err = NoErr
  /\ \E narg \in 0..2, cg \in CutGlobals :
       LET r == settings(pair, narg, cg) IN
         /\ pair' = r.p
         /\ err' = r.err
         /\ hist' = IF r.err = NoErr
                    THEN [c \in Pairs |-> IF hist[c] = <<>> THEN <<>> ELSE <<hist[c][1], 1>>]
                    ELSE hist
  /\ last' = Op("settings", 0, 0)
  /\ ret' = Undef
  /\ UNCHANGED <<fp, written, geom, force, probe>>

\* The arguments of a coeff call: narg counts the two type ranges too.
RangeArgs(nargs, lows, highs, abcs) ==
  [narg : nargs, ilo : lows, ihi : highs, jlo : lows, jhi : highs,
   abc : abcs, cut : CutOverrides]

\* Calls with a good count of arguments and type ranges inside 1..ntypes (a
\* range may be empty), calls with a bad count, calls with a range outside.
GoodArgs(abcs) == RangeArgs({5, 6}, Types, Types, abcs)
BadCountArgs == {x \in RangeArgs({4, 7}, Types, Types, Coeffs) : x.ilo = x.jlo /\ x.ihi = x.jhi}
BadRangeArgs == {x \in RangeArgs({5, 6}, 0..NTypes, 1..(NTypes + 1), Coeffs) :
                   /\ x.ilo = x.jlo /\ x.ihi = x.jhi
                   /\ (x.ilo = 0 \/ x.ihi = NTypes + 1)}
CoeffArgs == GoodArgs(Coeffs) \cup BadCountArgs \cup BadRangeArgs

coeffArg(x) ==
  [narg |-> x.narg, ilo |-> x.ilo, ihi |-> x.ihi, jlo |-> x.jlo, jhi |-> x.jhi,
   aterm |-> x.abc[1], bterm |-> x.abc[2], cterm |-> x.abc[3], cut |-> x.cut]

\* A call with fewer than 3 or more than 4 values after the two type ranges,
\* or whose ranges hold no pair i <= j.
BadCall(x) == x.narg - 2 < 3 \/ x.narg - 2 > 4 \/ coeffCells(coeffArg(x)) = {}

\* coeff(narg, arg) with the arguments x
CoeffCall(x) ==
  /\ err = NoErr
  /\ LET a == coeffArg(x)
         r == coeff(pair, a)
     IN
       /\ pair' = r.p
       /\ err' = r.err
       /\ hist' = IF r.err = NoErr
                  THEN [c \in Pairs |-> IF c \in coeffCells(a)
                                        THEN <<IF a.narg = 6 THEN a.cut ELSE Undef, 0>>
                                        ELSE hist[c]]
                  ELSE hist
  /\ last' = [Op("coeff", 0, 0) EXCEPT !.bad = BadCall(x), !.arg = <<x>>]
  /\ ret' = Undef
  /\ UNCHANGED <<fp, written, geom, force, probe>>

\* coeff(narg, arg), for the arguments of Args
Coeff(Args) == \E x \in Args : CoeffCall(x)

\* init_style()
InitStyle ==
  /\ err = NoErr
  /\ \E inner \in BOOLEAN : pair' = init_style(pair, inner)
  /\ last' = Op("init_style", 0, 0)
  /\ ret' = Undef
  /\ UNCHANGED <<err, fp, hist, written, geom, force, probe>>

\* init_one(i, j), called by Pair::init() for i <= j once the table is
\* allocated and init_style() has run; the caller stores cutsq.
InitOne ==
  /\ err = NoErr
  /\ pair.allocated = 1
  /\ pair.cut_respa # Unset
  /\ \E i \in Types, j \in Types :
       /\ i <= j
       /\ \E mem \in MemsFor(pair, i, j) :
          LET r == init_one(pair, i, j, mem) IN
            /\ pair' = IF r.err = NoErr THEN storeCutsq(r.p, i, j, r.ret) ELSE r.p
            /\ err' = r.err
            /\ ret' = r.ret
       /\ last' = Op("init_one", i, j)
  /\ UNCHANGED <<fp, hist, written, geom, force, probe>>

\* write_restart(fp), after the table was allocated
WriteRestart ==
  /\ err = NoErr
  /\ pair.allocated = 1
  /\ fp' = write_restart(pair)
  /\ written' = <<pair>>
  /\ last' = Op("write_restart", 0, 0)
  /\ ret' = Undef
  /\ UNCHANGED <<pair, err, hist, geom, force, probe>>

\* read_restart(fp) of a new instance, which replaces the old one
ReadRestart ==
  /\ err = NoErr
  /\ fp # <<>>
  /\ pair' = read_restart(Construct(Undef, Undef, Undef, Undef), fp)
  /\ hist' = [c \in Pairs |-> <<>>]
  /\ ret' = Undef
  /\ last' = Op("read_restart", 0, 0)
  /\ UNCHANGED <<err, fp, written, geom, force, probe>>

\* ------------------------------------------------- the input script: Spec

\* The commands of the input script that fill the table: pair_style and
\* pair_coeff, in any order and number.
Next == Settings \/ Coeff(CoeffArgs)
Spec == Init /\ [][Next]_vars

\* The pairs the table keeps: i <= j.
UpperPairs == {c \in Pairs : c[1] <= c[2]}

IsSet(p, i, j) == p.allocated = 1 /\ p.setflag[i][j] = 1

\* The entries of the table as the script wrote them.
Entries(p) ==
  [c \in UpperPairs |-> <<IsSet(p, c[1], c[2]), p.aterm[c[1]][c[2]], p.bterm[c[1]][c[2]],
                          p.cterm[c[1]][c[2]], p.cut[c[1]][c[2]]>>]

\* C3: a coeff call with fewer than 3 or more than 4 values after the type
\* ranges, or with type ranges that hold no pair, ends with an error, and a
\* coeff call that ends with an error leaves every entry of the table (isSet,
\* a, b, c, cutoff) as it was.
C3_BadCoeffFailsAndKeepsTable ==
  [][last'.op = "coeff" =>
       /\ last'.bad => err' = ErrCoeff
       /\ err' # NoErr => Entries(pair') = Entries(pair)]_vars

\* A coeff call failed on a table that has pairs set, both for a bad count and
\* for an empty range.
C3_Witness ==
  /\ err = ErrCoeff
  /\ last.op = "coeff"
  /\ last.bad
  /\ \E c \in UpperPairs : IsSet(pair, c[1], c[2])

\* The cutoff override a set pair has: that of the last coeff call that wrote
\* it, Undef if the call gave none.
Override(c) == hist[c][1]
\* Whether settings() ran after that call.
ResetSince(c) == hist[c][2] = 1

\* C5 as stated: the cutoff of a set pair is the override of its last coeff
\* call if the call gave one, the global cutoff otherwise.
C5_OverrideSurvives ==
  \A c \in UpperPairs :
    IsSet(pair, c[1], c[2]) =>
      pair.cut[c[1]][c[2]] = IF Override(c) # Undef THEN Override(c) ELSE pair.cut_global

\* C5: the cutoff of a set pair is the override of its last coeff call if the
\* call gave one and settings() did not run since; in every other case it is
\* the global cutoff, which settings() writes into every set pair.
C5_CutoffOfSetPair ==
  \A c \in UpperPairs :
    IsSet(pair, c[1], c[2]) =>
      pair.cut[c[1]][c[2]] = IF Override(c) # Undef /\ ~ResetSince(c)
                             THEN Override(c) ELSE pair.cut_global

\* A pair set with an override, settings() after it, and then a coeff call that
\* gave another pair an override.
C5_Witness ==
  \E c \in UpperPairs :
    /\ IsSet(pair, c[1], c[2])
    /\ Override(c) # Undef
    /\ ResetSince(c)
    /\ pair.cut[c[1]][c[2]] # Override(c)
    /\ err = NoErr
    /\ \E d \in UpperPairs :
         IsSet(pair, d[1], d[2]) /\ Override(d) # Undef /\ ~ResetSince(d)

\* ------------------------------------------- initialisation: SpecInit

\* pair_coeff commands without a cutoff override, and the steps of the
\* initialisation of a run in any order: init_style(), init_one(i, j).
InitArgs == {x \in GoodArgs({<<3, 2, 1>>}) : x.narg = 5}
NextInit == Coeff(InitArgs) \/ InitStyle \/ InitOne
SpecInit == Init /\ [][NextInit]_vars

\* init_one ran for every pair i <= j since the table was allocated.
AllFinalized(p) ==
  p.allocated = 1 /\ \A c \in UpperPairs : p.lj1[c[1]][c[2]] # Undef

\* The values init_one derives, held at (i,j).
Derived(p, i, j) ==
  <<p.lj1[i][j], p.lj2[i][j], p.lj3[i][j], p.lj4[i][j], p.lj5[i][j], p.lj6[i][j],
    p.offset[i][j]>>

\* The values of the script, held at (i,j).
Inputs(p, i, j) ==
  <<p.aterm[i][j], p.bterm[i][j], p.cterm[i][j], p.cut[i][j], p.setflag[i][j]>>

\* C1 as stated: once init_one ran for every pair i <= j, the table is
\* symmetric in every field, the input values a, b, c, cutoff, isSet and the
\* derived constants.
C1_AllFieldsSymmetric ==
  AllFinalized(pair) =>
    \A c \in UpperPairs :
      /\ Derived(pair, c[2], c[1]) = Derived(pair, c[1], c[2])
      /\ Inputs(pair, c[2], c[1]) = Inputs(pair, c[1], c[2])

\* C1: once init_one ran for every pair i <= j, the derived constants (the
\* force and energy coefficients and the energy offset) held at (j,i) are
\* defined and equal those at (i,j); a, b, c, cutoff and isSet are held at
\* (i,j), i <= j, and init_one writes none of them at (j,i), i < j.
C1_DerivedSymmetric ==
  AllFinalized(pair) =>
    \A c \in UpperPairs :
      /\ Derived(pair, c[2], c[1]) = Derived(pair, c[1], c[2])
      /\ \A k \in 1..7 : Derived(pair, c[1], c[2])[k] # Undef
      /\ c[1] < c[2] => Inputs(pair, c[2], c[1]) = <<Undef, Undef, Undef, Undef, Undef>>

\* Every pair is finalized, a cross pair with coefficients that are not zero.
C1_Witness ==
  /\ AllFinalized(pair)
  /\ \E c \in UpperPairs : c[1] < c[2] /\ pair.lj3[c[1]][c[2]] > 0

\* C4: init_one(i, j) ends with the rRESPA error exactly when the integrator
\* gave shell radii and the finalized cutoff of (i,j) is below the fourth of
\* them; otherwise it ends with no error and returns cut[i][j].  No other
\* operation ends with that error.
C4_RespaErrorExactly ==
  /\ err = ErrRespa => last.op = "init_one"
  /\ last.op = "init_one" =>
       /\ err = ErrRespa <=>
            (pair.cut_respa # NULL /\ pair.cut[last.i][last.j] < RespaCutoff[4])
       /\ err # ErrRespa => err = NoErr /\ ret = pair.cut[last.i][last.j]

\* init_one ended with the error on a pair that is not set, whose mixed
\* cutoff is below the fourth radius.
C4_Witness ==
  /\ last.op = "init_one"
  /\ err = ErrRespa
  /\ pair.setflag[last.i][last.j] = 0
  /\ pair.cut[last.i][last.j] < RespaCutoff[4]

\* View of the pair (i,j) that idempotence is about: both cells, all fields.
PairView(p, i, j) ==
  <<Inputs(p, i, j), Derived(p, i, j), Inputs(p, j, i), Derived(p, j, i)>>

\* C9: init_one(i, j) called right after init_one(i, j) leaves a, b, c, cutoff,
\* isSet, the derived constants and the offset of (i,j) and (j,i) as the first
\* call left them and returns the same cutoff.
C9_InitOneIdempotent ==
  [][last'.op = "init_one" /\ last'.again =>
       /\ PairView(pair', last'.i, last'.j) = PairView(pair, last'.i, last'.j)
       /\ ret' = ret
       /\ err' = NoErr]_vars

\* init_one ran twice in a row on an unset cross pair whose cutoff was mixed
\* from a set diagonal pair and an unset one.
C9_Witness ==
  /\ last.op = "init_one"
  /\ last.again
  /\ last.i < last.j
  /\ pair.setflag[last.i][last.j] = 0
  /\ \E k \in {last.i, last.j} : pair.setflag[k][k] = 1

\* -------------------------------------------------- restart: SpecRestart

\* A run whose script fills the table and that writes the restart file, and a
\* new run that reads it.  pair_modify gives the flags any value.
InitRestart ==
  /\ \E cg \in CutGlobals, of \in 0..1, mf \in {GEOMETRIC, ARITHMETIC}, tf \in 0..1 :
       pair = Construct(cg, of, mf, tf)
  /\ err = NoErr
  /\ ret = Undef
  /\ fp = <<>>
  /\ hist = [c \in Pairs |-> <<>>]
  /\ written = <<>>
  /\ last = [op |-> "pair_style", i |-> 0, j |-> 0, again |-> FALSE, bad |-> FALSE, arg |-> <<>>]
  /\ geom = CHOOSE g \in Geoms : TRUE
  /\ force = [m \in Modes |-> NotRun]
  /\ probe = NoProbe

RestartArgs == GoodArgs({<<3, 2, 1>>})

NextRestart ==
  \/ fp = <<>> /\ Settings
  \/ fp = <<>> /\ Coeff(RestartArgs)
  \/ fp = <<>> /\ WriteRestart
  \/ last.op = "write_restart" /\ ReadRestart

SpecRestart == InitRestart /\ [][NextRestart]_vars

\* The global settings of an instance.
Globals(p) == <<p.cut_global, p.offset_flag, p.mix_flag, p.tail_flag>>

\* What cells that were never written may hold, all of them.
FullMems == [Types -> Garbage]

\* The derived constants of every pair after Pair::init() of p, with mem in
\* the cells cut[i][i] that were never written.
Refinalized(p, mem) ==
  LET q == pairInit(p, FALSE, mem).p
  IN [c \in Pairs |-> Derived(q, c[1], c[2])]

\* C2: the instance that read the restart file has the global settings
\* (cut_global, offset_flag, mix_flag, tail_flag) of the instance that wrote
\* it and, for every pair i <= j, the same isSet and the same a, b, c, cutoff
\* (a pair that is not set holds no written value in either); and after
\* init_one ran on every pair of both, the derived constants are the same.
C2_RestartRoundTrip ==
  last.op = "read_restart" =>
    LET orig == written[1] IN
      /\ Globals(pair) = Globals(orig)
      /\ \A c \in UpperPairs : Inputs(pair, c[1], c[2]) = Inputs(orig, c[1], c[2])
      /\ \A m1 \in FullMems, m2 \in FullMems : Refinalized(pair, m1) = Refinalized(orig, m2)

\* A file was read that holds a pair with a cutoff override, a pair without
\* one and a pair that is not set, with flags that differ.
C2_Witness ==
  /\ last.op = "read_restart"
  /\ pair.offset_flag # pair.mix_flag
  /\ \E c \in UpperPairs, d \in UpperPairs, e \in UpperPairs :
       /\ pair.setflag[c[1]][c[2]] = 1 /\ pair.cut[c[1]][c[2]] # pair.cut_global
       /\ pair.setflag[d[1]][d[2]] = 1 /\ pair.cut[d[1]][d[2]] = pair.cut_global
       /\ pair.setflag[e[1]][e[2]] = 0

\* ----------------------------------------------------- a run: SpecEval

\* The pair_coeff commands of a script, one per pair: every pair (i,i) with a
\* triple of its own, with a cutoff override for the even types; the pairs
\* i < j, if cross is not "unset", with or without an override.
ScriptArg(i, j, cross) ==
  [narg |-> IF i = j THEN (IF i % 2 = 0 THEN 6 ELSE 5)
            ELSE (IF cross = "override" THEN 6 ELSE 5),
   ilo |-> i, ihi |-> i, jlo |-> j, jhi |-> j,
   abc |-> IF i = j /\ i % 2 = 0 THEN <<1, 3, 2>> ELSE <<3, 2, 1>>,
   cut |-> CHOOSE c \in CutOverrides : TRUE]

Scripted(c, cross) == c[1] = c[2] \/ cross # "unset"

\* The instance after the commands for the k-th pair on.
RECURSIVE runScript(_, _, _)
runScript(p, k, cross) ==
  IF k > Len(PairSeq) THEN p
  ELSE LET c == PairSeq[k] IN
       runScript(IF Scripted(c, cross)
                 THEN coeff(p, coeffArg(ScriptArg(c[1], c[2], cross))).p ELSE p,
                 k + 1, cross)

InitEval ==
  /\ \E cg \in CutGlobals, mf \in {GEOMETRIC, ARITHMETIC},
        cross \in {"unset", "global", "override"} :
       /\ pair = runScript(Construct(cg, 0, mf, 0), 1, cross)
       /\ hist = [c \in Pairs |->
                    IF c \in UpperPairs /\ Scripted(c, cross)
                    THEN <<IF ScriptArg(c[1], c[2], cross).narg = 6
                           THEN ScriptArg(c[1], c[2], cross).cut ELSE Undef, 0>>
                    ELSE <<>>]
  /\ err = NoErr
  /\ ret = Undef
  /\ fp = <<>>
  /\ written = <<>>
  /\ last = [op |-> "coeff", i |-> 0, j |-> 0, again |-> FALSE, bad |-> FALSE, arg |-> <<>>]
  /\ geom = CHOOSE g \in Geoms : TRUE
  /\ force = [m \in Modes |-> NotRun]
  /\ probe = NoProbe

\* What Pair::init() may find in the cells cut[i][i] it reads: it matters
\* only for the types of a pair that is not set.
MemsInit(p) ==
  {m \in Mems : \A k \in Types :
     (m[k] # Undef) <=>
       (p.cut[k][k] = Undef /\
        \E c \in UpperPairs : k \in {c[1], c[2]} /\ p.setflag[c[1]][c[2]] = 0)}

\* Pair::init(), at the setup of a run: init_style(), init_one for every pair;
\* the forces of the run start from zero.
PairInit ==
  /\ err = NoErr
  /\ pair.allocated = 1
  /\ \E inner \in BOOLEAN, mem \in MemsInit(pair) :
       LET r == pairInit(pair, inner, mem) IN
         /\ pair' = r.p
         /\ err' = r.err
  /\ last' = Op("init", 0, 0)
  /\ ret' = Undef
  /\ force' = [m \in Modes |-> NotRun]
  /\ probe' = NoProbe
  /\ UNCHANGED <<fp, hist, written, geom>>

\* The table is finalized for the run.
Ready == err = NoErr /\ last.op = "init"

\* The kernels that run on a pair in a step: compute(), or with rRESPA shells
\* the three of the shells.
Kernels == IF pair.cut_respa = NULL THEN {"full"} ELSE {"inner", "middle", "outer"}

\* The neighbor list hands the kernels another pair of particles, after the
\* kernels of the step ran on the last one.
Place ==
  /\ Ready
  /\ \A m \in Kernels : force[m].ran
  /\ \E g \in Geoms : geom' = g
  /\ force' = [m \in Modes |-> NotRun]
  /\ UNCHANGED <<pair, err, ret, fp, hist, written, last, probe>>

\* compute(), the kernel of a run without rRESPA shells
Compute ==
  /\ Ready
  /\ pair.cut_respa = NULL
  /\ force' = [force EXCEPT !["full"] = compute(pair, geom)]
  /\ UNCHANGED <<pair, err, ret, fp, hist, written, last, geom, probe>>

\* compute_inner()
ComputeInner ==
  /\ Ready
  /\ pair.cut_respa # NULL
  /\ force' = [force EXCEPT !["inner"] = compute_inner(pair, geom)]
  /\ UNCHANGED <<pair, err, ret, fp, hist, written, last, geom, probe>>

\* compute_middle()
ComputeMiddle ==
  /\ Ready
  /\ pair.cut_respa # NULL
  /\ force' = [force EXCEPT !["middle"] = compute_middle(pair, geom)]
  /\ UNCHANGED <<pair, err, ret, fp, hist, written, last, geom, probe>>

\* compute_outer()
ComputeOuter ==
  /\ Ready
  /\ pair.cut_respa # NULL
  /\ force' = [force EXCEPT !["outer"] = compute_outer(pair, geom)]
  /\ UNCHANGED <<pair, err, ret, fp, hist, written, last, geom, probe>>

NextEval == PairInit \/ Place \/ Compute \/ ComputeInner \/ ComputeMiddle \/ ComputeOuter
SpecEval == InitEval /\ [][NextEval]_vars

\* The pair of the table that holds the input values of the particle pair.
Lo(g) == IF g.itype <= g.jtype THEN g.itype ELSE g.jtype
Hi(g) == IF g.itype <= g.jtype THEN g.jtype ELSE g.itype
\* The finalized cutoff of the particle pair.
Cutoff(p, g) == p.cut[Lo(g)][Hi(g)]
WithinCutoff(p, g) == Rsq(g) < Cutoff(p, g) * Cutoff(p, g)

\* The energy a pass added for the pair.
EnergyOf(res) == IF res.e = Nothing THEN VZero ELSE res.e

\* C6: a pair (i,j), i < j, that no coeff call set while (i,i) and (j,j) were
\* set has, after init_one, a = b = c = 0, the six derived constants and the
\* offset 0 at (i,j) and (j,i), and the mixed cutoff of (i,i) and (j,j); and
\* compute() adds zero force and zero energy for it at every distance within
\* the cutoff, for every factor.
C6_UnsetCrossPairIsZero ==
  Ready =>
    \A c \in UpperPairs :
      (/\ c[1] < c[2]
       /\ pair.setflag[c[1]][c[2]] = 0
       /\ pair.setflag[c[1]][c[1]] = 1
       /\ pair.setflag[c[2]][c[2]] = 1) =>
        /\ Inputs(pair, c[1], c[2]) =
             <<0, 0, 0, mix_distance(pair, pair.cut[c[1]][c[1]], pair.cut[c[2]][c[2]]), 0>>
        /\ Derived(pair, c[1], c[2]) = <<0, 0, 0, 0, 0, 0, 0>>
        /\ Derived(pair, c[2], c[1]) = <<0, 0, 0, 0, 0, 0, 0>>
        /\ (force["full"].ran /\ Lo(geom) = c[1] /\ Hi(geom) = c[2]
              /\ WithinCutoff(pair, geom)) =>
             /\ force["full"].hit
             /\ force["full"].f = VZero
             /\ EnergyOf(force["full"]) = VZero

\* compute() ran on a pair of particles of an unset type pair, within the
\* cutoff, with the energy asked for.
C6_Witness ==
  /\ Ready
  /\ force["full"].ran
  /\ force["full"].hit
  /\ geom.itype > geom.jtype
  /\ geom.eflag = 1
  /\ pair.setflag[Lo(geom)][Hi(geom)] = 0

ShellsRan == force["inner"].ran /\ force["middle"].ran /\ force["outer"].ran

\* The force a kernel added is the whole raw force of compute() or nothing.
AllOrNothing(res) ==
  res.f = VZero \/ VEq(res.f, fpairRaw(pair, geom), Rsq(geom))

\* C8: for a pair within the cutoff, the forces that compute_inner,
\* compute_middle and compute_outer add sum to the force compute() adds
\* (their switching weights sum to 1); at a distance equal to one of the four
\* shell radii each of the three adds the whole raw force or nothing.
C8_ShellsSumToFull ==
  (Ready /\ ShellsRan /\ WithinCutoff(pair, geom)) =>
    /\ VEq(VAdd(VAdd(force["inner"].f, force["middle"].f, Rsq(geom)),
                 force["outer"].f, Rsq(geom)),
            compute(pair, geom).f, Rsq(geom))
    /\ (\E k \in 1..4 : geom.r = pair.cut_respa[k]) =>
         /\ AllOrNothing(force["inner"])
         /\ AllOrNothing(force["middle"])
         /\ AllOrNothing(force["outer"])

\* The three kernels ran on a pair between the third and fourth radius, where
\* the middle and the outer kernel each add a part of a force that is not zero.
C8_Witness ==
  /\ Ready
  /\ ShellsRan
  /\ WithinCutoff(pair, geom)
  /\ force["middle"].f # VZero
  /\ force["outer"].f # VZero
  /\ ~VEq(force["outer"].f, fpairRaw(pair, geom), Rsq(geom))

\* What compute_outer adds for the pair if its fade-in runs from lo to hi.
OuterForce(lo, hi) ==
  IF Rsq(geom) < hi * hi
  THEN VMul(fpairRaw(pair, geom), fadeIn(rsw(geom, lo, hi)))
  ELSE fpairRaw(pair, geom)

OuterFadesBetween(lo, hi) ==
  (Ready /\ force["outer"].ran) =>
    /\ force["outer"].hit <=> (WithinCutoff(pair, geom) /\ Rsq(geom) > lo * lo)
    /\ force["outer"].hit => VEq(force["outer"].f, OuterForce(lo, hi), Rsq(geom))

\* C10 as stated: compute_outer adds force exactly when rsq < cutoff^2 and
\* rsq > innerOff^2, faded in by t^2 (3 - 2 t), t = (r - innerOff) / (innerOn -
\* innerOff), when rsq < innerOn^2, for innerOff and innerOn the first two
\* shell radii, those of the fade-in of compute_middle.
C10_OuterFadesOverFirstTwo == OuterFadesBetween(pair.cut_respa[1], pair.cut_respa[2])

\* C10: compute_outer adds force exactly when rsq < cutoff^2 and rsq is above
\* the square of the third shell radius, faded in by t^2 (3 - 2 t) between the
\* third and the fourth radius, those of the fade-out of compute_middle; it
\* applies no fade-out.
C10_OuterFadesOverLastTwo == OuterFadesBetween(pair.cut_respa[3], pair.cut_respa[4])

\* compute_outer ran on a pair between the third and the fourth radius and
\* added a faded force.
C10_Witness ==
  /\ Ready
  /\ force["outer"].ran
  /\ force["outer"].hit
  /\ geom.r > pair.cut_respa[3]
  /\ geom.r < pair.cut_respa[4]
  /\ force["outer"].f # VZero

\* compute_outer ran on a pair within the cutoff with the virial asked for.
OuterVirialRan ==
  Ready /\ force["outer"].ran /\ geom.vflag = 1 /\ WithinCutoff(pair, geom)

\* The pair is between the two radii of the fade-in of compute_outer.
InOuterFade ==
  /\ geom.r > outerRadii(pair)[1]
  /\ geom.r < outerRadii(pair)[2]

\* C11 as stated: with the virial asked for, the fpair that compute_outer
\* hands to ev_tally is the raw force up to the lower radius of its fade-in,
\* and between the two radii the faded force it added to the forces.
C11_TallyGetsFadedForce ==
  OuterVirialRan =>
    /\ geom.r <= outerRadii(pair)[1] =>
         VEq(force["outer"].v, fpairRaw(pair, geom), Rsq(geom))
    /\ InOuterFade => VEq(force["outer"].v, force["outer"].f, Rsq(geom))

\* C11: with the virial asked for, the fpair that compute_outer hands to
\* ev_tally for a pair within the cutoff is the raw force factor_lj * forcelj
\* * r2inv at every distance: recomputed up to the lower radius of the
\* fade-in, set back to the raw value between the two radii (the fade-in
\* weight of the force branch is dropped), and left as the force branch
\* computed it, without a weight, from the upper radius on.
C11_TallyGetsRawForce ==
  OuterVirialRan =>
    /\ VEq(force["outer"].v, fpairRaw(pair, geom), Rsq(geom))
    /\ geom.r >= outerRadii(pair)[2] => force["outer"].v = force["outer"].f

\* compute_outer ran with the virial asked for on a pair between the two
\* radii, with a force that is not zero: the force it added is faded, the one
\* it tallied is not.
C11_Witness ==
  /\ OuterVirialRan
  /\ InOuterFade
  /\ force["outer"].f # VZero
  /\ ~VEq(force["outer"].v, force["outer"].f, Rsq(geom))

\* ------------------------------------------- single-pair calls: SpecProbe

\* The arguments of single() and born_matrix(): types, rsq, factor_lj.  They
\* take no eflag or vflag.
ProbeArgs == [itype : Types, jtype : Types, r : 1..MaxR, factor : Factors,
              eflag : {0}, vflag : {0}]

\* single(), called by a compute of the engine on a finalized table
Single ==
  /\ Ready
  /\ \E g \in ProbeArgs :
       LET r == single(pair, g) IN
         probe' = [op |-> "single", g |-> g, out |-> <<r.fforce, r.energy>>]
  /\ UNCHANGED <<pair, err, ret, fp, hist, written, last, geom, force>>

\* born_matrix(), called by a compute of the engine on a finalized table
BornMatrix ==
  /\ Ready
  /\ \E g \in ProbeArgs :
       LET r == born_matrix(pair, g) IN
         probe' = [op |-> "born_matrix", g |-> g, out |-> <<r.dupair, r.du2pair>>]
  /\ UNCHANGED <<pair, err, ret, fp, hist, written, last, geom, force>>

NextProbe == PairInit \/ Single \/ BornMatrix
SpecProbe == InitEval /\ [][NextProbe]_vars

\* x * (1/r)^k: a factor 1/rsq for every two powers, 1/r for an odd one
RECURSIVE OverRPow(_, _, _)
OverRPow(x, g, k) ==
  IF k = 0 THEN x
  ELSE IF k = 1 THEN VMul(x, Rinv(g))
  ELSE OverRPow(VMul(x, Recip(Rsq(g))), g, k - 2)

\* factor * d/dr [a r^-12 - b r^-10 + c r^-6], from the coefficients of the
\* pair: factor * (-12 a r^-13 + 10 b r^-11 - 6 c r^-7)
EnergyDerivative(p, g) ==
  LET a == p.aterm[Lo(g)][Hi(g)]
      b == p.bterm[Lo(g)][Hi(g)]
      c == p.cterm[Lo(g)][Hi(g)]
      rsq == Rsq(g)
  IN VMul(factor_lj(g),
          VSub(VSub(OverRPow(I(10 * b), g, 11), OverRPow(I(12 * a), g, 13), rsq),
               OverRPow(I(6 * c), g, 7), rsq))

\* -r * fforce, for the fforce of single() on the same arguments
MinusRTimesForce(p, g) ==
  VNeg(VMul(I(ISqrt(Rsq(g))), single(p, g).fforce))

\* C12: the dupair of born_matrix() is the derivative with respect to r of
\* the energy of the pair, factor * d/dr [a r^-12 - b r^-10 + c r^-6], which is
\* -r times the fforce of single() for the same arguments.
C12_DupairIsEnergyDerivative ==
  (Ready /\ probe.op = "born_matrix") =>
    /\ VEq(probe.out[1], EnergyDerivative(pair, probe.g), Rsq(probe.g))
    /\ VEq(probe.out[1], MinusRTimesForce(pair, probe.g), Rsq(probe.g))

\* What born_matrix() does compute: dupair = factor * (10 b r^-7 - 12 a r^-13),
\* the form of a 12-6 potential with lj2 in the place of its r^-6 term; the
\* r^-10 term has the wrong power and the r^-6 term of the energy is absent.
C12_DupairAsComputed ==
  (Ready /\ probe.op = "born_matrix") =>
    LET g == probe.g
        a == pair.aterm[Lo(g)][Hi(g)]
        b == pair.bterm[Lo(g)][Hi(g)]
    IN VEq(probe.out[1],
           VMul(factor_lj(g),
                VSub(OverRPow(I(10 * b), g, 7), OverRPow(I(12 * a), g, 13), Rsq(g))),
           Rsq(g))

\* born_matrix() ran on a set pair at r > 1, and its dupair is not -r times
\* the force of single().
C12_Witness ==
  /\ Ready
  /\ probe.op = "born_matrix"
  /\ probe.g.r > 1
  /\ pair.setflag[Lo(probe.g)][Hi(probe.g)] = 1
  /\ ~VEq(probe.out[1], MinusRTimesForce(pair, probe.g), Rsq(probe.g))

\* ------------------------------------------------ C13, checked under Spec

\* The entry of the table at (i,j), for any i and j.
EntryAt(p, i, j) ==
  <<IsSet(p, i, j), p.aterm[i][j], p.bterm[i][j], p.cterm[i][j], p.cut[i][j]>>

\* The pairs (i,j), i <= j, of the rectangle of a call.
Rectangle(x) ==
  {c \in Pairs : /\ x.ilo <= c[1] /\ c[1] <= x.ihi
                 /\ x.jlo <= c[2] /\ c[2] <= x.jhi
                 /\ c[1] <= c[2]}

\* The positions (i,j), i > j, of the rectangle of a call.
Mirrored(x) ==
  {c \in Pairs : /\ x.ilo <= c[1] /\ c[1] <= x.ihi
                 /\ x.jlo <= c[2] /\ c[2] <= x.jhi
                 /\ c[1] > c[2]}

\* C13: a coeff call that succeeds writes a, b, c, the cutoff (its override,
\* or the global cutoff) and isSet for exactly the pairs (i,j), i <= j, of its
\* rectangle and leaves every other entry, those with i > j included, as it
\* was; a call with a good count and ranges whose rectangle holds no pair
\* i <= j ends with the coeff error and writes nothing.
C13_CoeffWritesUpperRectangle ==
  [][last'.op = "coeff" =>
       LET x == last'.arg[1] IN
         /\ err' = NoErr =>
              /\ Rectangle(x) # {}
              /\ \A c \in Pairs :
                   EntryAt(pair', c[1], c[2]) =
                     IF c \in Rectangle(x)
                     THEN <<TRUE, x.abc[1], x.abc[2], x.abc[3],
                            IF x.narg = 6 THEN x.cut ELSE pair.cut_global>>
                     ELSE EntryAt(pair, c[1], c[2])
         /\ (x.narg \in {5, 6} /\ bounds(x.ilo, x.ihi) /\ bounds(x.jlo, x.jhi)
               /\ Rectangle(x) = {}) =>
              /\ err' = ErrCoeff
              /\ \A c \in Pairs : EntryAt(pair', c[1], c[2]) = EntryAt(pair, c[1], c[2])]_vars

\* A call succeeded whose rectangle holds positions with i > j, on a table
\* where a pair outside the rectangle was set before.
C13_Witness ==
  /\ last.op = "coeff"
  /\ err = NoErr
  /\ Mirrored(last.arg[1]) # {}
  /\ \E c \in UpperPairs : c \notin Rectangle(last.arg[1]) /\ IsSet(pair, c[1], c[2])

====
